---- MODULE Spec2Model ----
(***************************************************************************)
(* Model of the batch catalog (artm::core::DiskGeneration) and of the      *)
(* phi-matrix regularizer (artm::regularizer::SmoothSparsePhi).            *)
(***************************************************************************)
EXTENDS Integers, Sequences, FiniteSets, TLC

VARIABLES
    \* ---- DiskGeneration ----
    generation_,          \* DiskGeneration::generation_ (vector<BatchManagerTask>)
    scanned,              \* what BatchHelpers::ListAllBatches returned to the constructor
    pc,                   \* per worker: position inside DiskGeneration::batch
    local,                \* per worker: the task argument and the local `batch` object
    ret,                  \* per worker: outcome of the last finished call, none while one runs
    \* ---- SmoothSparsePhi ----
    config_,              \* SmoothSparsePhi::config_
    transform_function_,  \* SmoothSparsePhi::transform_function_
    p_wt, n_wt, result,   \* the caller's matrices
    last,                 \* the last finished step on the regularizer and its outcome
    rpc,                  \* position of the in-flight RegularizePhi
    token_id,             \* loop index of the in-flight RegularizePhi
    cpc                   \* position of the in-flight Reconfigure

genVars == <<generation_, scanned, pc, local, ret>>
regVars == <<config_, transform_function_, p_wt, n_wt, result, last,
             rpc, token_id, cpc>>
vars == <<generation_, scanned, pc, local, ret,
          config_, transform_function_, p_wt, n_wt, result, last,
          rpc, token_id, cpc>>

----------------------------------------------------------------------------
(***************************************************************************)
(* DiskGeneration                                                          *)
(***************************************************************************)

\* Most batch files the scanned directory holds.
MaxBatches == 3

Workers == {"w1", "w2"}

Uuids == 1..MaxBatches

\* BatchManagerTask {uuid, file_path}: the scanner names file k "/d/k.bin".
FilePath(u) == <<"/d", u, ".bin">>

Task(u) == [uuid |-> u, file_path |-> FilePath(u)]

\* boost::lexical_cast<std::string>(uuid): the textual form of a uuid.
lexical_cast(u) == <<"uuid", u>>

\* BatchHelpers::ListAllBatches(disk_path): one task per batch file, each
\* with an identifier of its own, in the order the directory scan met them.
ListAllBatches ==
    UNION { { s \in [1..k -> {Task(u) : u \in 1..k}] :
                \A i, j \in 1..k : s[i] = s[j] => i = j } : k \in 0..MaxBatches }

\* Mutant: the copy loop stops one element early.
DiskGenerationShort(batches) ==
    IF Len(batches) = 0 THEN << >> ELSE SubSeq(batches, 1, Len(batches) - 1)

RECURSIVE PushAll(_, _, _)
PushAll(gen, batches, i) ==
    IF i > Len(batches) THEN gen
    ELSE PushAll(Append(gen, batches[i]), batches, i + 1)

\* DiskGeneration::DiskGeneration: generation_() then push_back of every
\* scanned task, in order.
DiskGeneration(batches) == PushAll(<< >>, batches, 1)

\* Batches as decoded from a file: the id the payload reports for itself,
\* its tokens and the per-token class ids (possibly absent).
BatchTokens == <<"a", "b">>

DefaultClass == "@default_class"

\* The ids a file may report: the id the scanner gave it, the id of the
\* next file (a renamed file) or an id no task has (a stale file).
PayloadIds(path) ==
    {lexical_cast(path[2]), lexical_cast((path[2] % MaxBatches) + 1), <<"uuid", 0>>}

Payloads(ids) ==
    [id : ids, token : {BatchTokens}, class_id : {<< >>, <<"c1", "c2">>}]

\* BatchHelpers::LoadMessage(path, batch): decodes the file at path into the
\* batch; what the file holds is outside the catalog's control.
LoadMessage(path) == Payloads(PayloadIds(path))

\* Batch::set_id
set_id(batch, id) == [batch EXCEPT !.id = id]

\* BatchHelpers::PopulateClassId: fills in class ids absent from the payload.
PopulateClassId(batch) ==
    IF Len(batch.class_id) # Len(batch.token)
    THEN [batch EXCEPT !.class_id = [i \in 1..Len(batch.token) |-> DefaultClass]]
    ELSE batch

NoBatch == [id |-> << >>, token |-> << >>, class_id |-> << >>]
NoTask == [uuid |-> 0, file_path |-> << >>]
\* `decoded` remembers the payload as LoadMessage produced it.
NoLocal == [task |-> NoTask, batch |-> NoBatch, decoded |-> NoBatch]
NoRet == [op |-> "none", arg |-> 0, threw |-> "", value |-> << >>]

\* Mutant: AddBatch accepts the batch, as the in-memory generation does.
AddBatchAccepts(w, batch) ==
    /\ pc[w] = "idle"
    /\ generation_' = Append(generation_, Task(0))
    /\ ret' = [ret EXCEPT ![w] = [op |-> "AddBatch", arg |-> 0, threw |-> "", value |-> <<0>>]]
    /\ UNCHANGED <<scanned, pc, local>>

\* DiskGeneration::AddBatch: throws InvalidOperation, returns nothing.
AddBatch(w, batch) ==
    /\ pc[w] = "idle"
    /\ ret' = [ret EXCEPT ![w] =
                 [op |-> "AddBatch", arg |-> 0, threw |-> "InvalidOperation",
                  value |-> << >>]]
    /\ UNCHANGED <<generation_, scanned, pc, local>>

Without(seq, u) == SelectSeq(seq, LAMBDA t : t.uuid # u)

\* Mutant: RemoveBatch erases the task, as the in-memory generation does.
RemoveBatchErases(w, uuid) ==
    /\ pc[w] = "idle"
    /\ generation_' = Without(generation_, uuid)
    /\ ret' = [ret EXCEPT ![w] =
                 [op |-> "RemoveBatch", arg |-> uuid, threw |-> "", value |-> << >>]]
    /\ UNCHANGED <<scanned, pc, local>>

\* DiskGeneration::RemoveBatch: logs an error, does nothing else.
RemoveBatch(w, uuid) ==
    /\ pc[w] = "idle"
    /\ ret' = [ret EXCEPT ![w] =
                 [op |-> "RemoveBatch", arg |-> uuid, threw |-> "", value |-> << >>]]
    /\ UNCHANGED <<generation_, scanned, pc, local>>

\* DiskGeneration::batch_uuids: returns a copy of generation_.
batch_uuids(w) ==
    /\ pc[w] = "idle"
    /\ ret' = [ret EXCEPT ![w] =
                 [op |-> "batch_uuids", arg |-> 0, threw |-> "", value |-> generation_]]
    /\ UNCHANGED <<generation_, scanned, pc, local>>

\* DiskGeneration::batch, line 43-44: make_shared<Batch>() and LoadMessage.
batch_load(w, task) ==
    /\ pc[w] = "idle"
    /\ \E payload \in LoadMessage(task.file_path) :
         local' = [local EXCEPT ![w] =
                     [task |-> task, batch |-> payload, decoded |-> payload]]
    /\ pc' = [pc EXCEPT ![w] = "loaded"]
    /\ ret' = [ret EXCEPT ![w] = NoRet]
    /\ UNCHANGED <<generation_, scanned>>

\* DiskGeneration::batch, line 44, when LoadMessage cannot read the file:
\* its exception leaves batch() before the stamp.
batch_load_fails(w, task) ==
    /\ pc[w] = "idle"
    /\ ret' = [ret EXCEPT ![w] =
                 [op |-> "batch", arg |-> task.uuid, threw |-> "DiskReadException",
                  value |-> << >>]]
    /\ UNCHANGED <<generation_, scanned, pc, local>>

\* Mutant: the stamp is left out and the payload keeps its own id.
batch_set_id_skipped(w) ==
    /\ pc[w] = "loaded"
    /\ pc' = [pc EXCEPT ![w] = "stamped"]
    /\ UNCHANGED <<generation_, scanned, ret, local>>

\* DiskGeneration::batch, line 45: batch->set_id(lexical_cast<string>(task.uuid)).
batch_set_id(w) ==
    /\ pc[w] = "loaded"
    /\ local' = [local EXCEPT ![w].batch =
                   set_id(local[w].batch, lexical_cast(local[w].task.uuid))]
    /\ pc' = [pc EXCEPT ![w] = "stamped"]
    /\ UNCHANGED <<generation_, scanned, ret>>

\* DiskGeneration::batch, line 46: PopulateClassId(batch.get()).
batch_populate(w) ==
    /\ pc[w] = "stamped"
    /\ local' = [local EXCEPT ![w].batch = PopulateClassId(local[w].batch)]
    /\ pc' = [pc EXCEPT ![w] = "populated"]
    /\ UNCHANGED <<generation_, scanned, ret>>

\* DiskGeneration::batch, line 47: return batch.
batch_return(w) ==
    /\ pc[w] = "populated"
    /\ ret' = [ret EXCEPT ![w] =
                 [op |-> "batch", arg |-> local[w].task.uuid, threw |-> "",
                  value |-> <<local[w].batch>>]]
    /\ local' = [local EXCEPT ![w] = NoLocal]
    /\ pc' = [pc EXCEPT ![w] = "idle"]
    /\ UNCHANGED <<generation_, scanned>>

RegIdle ==
    /\ config_ = << >> /\ transform_function_ = "" /\ p_wt = << >>
    /\ n_wt = << >> /\ result = << >> /\ last = << >>
    /\ rpc = "" /\ token_id = 0 /\ cpc = ""

GenInit ==
    /\ scanned \in ListAllBatches
    /\ generation_ = DiskGeneration(scanned)
    /\ pc = [w \in Workers |-> "idle"]
    /\ local = [w \in Workers |-> NoLocal]
    /\ ret = [w \in Workers |-> NoRet]
    /\ RegIdle

GenNext ==
    \E w \in Workers :
        \/ \E b \in Payloads({<<"uuid", 0>>}) : AddBatch(w, b) /\ UNCHANGED regVars
        \/ \E u \in Uuids : RemoveBatch(w, u) /\ UNCHANGED regVars
        \/ batch_uuids(w) /\ UNCHANGED regVars
        \/ \E i \in 1..Len(generation_) :
              batch_load(w, generation_[i]) /\ UNCHANGED regVars
        \/ \E i \in 1..Len(generation_) :
              batch_load_fails(w, generation_[i]) /\ UNCHANGED regVars
        \/ batch_set_id(w) /\ UNCHANGED regVars
        \/ batch_populate(w) /\ UNCHANGED regVars
        \/ batch_return(w) /\ UNCHANGED regVars

SpecGeneration == GenInit /\ [][GenNext]_vars

\* C1: batch_uuids() returns, in every reachable state and whatever calls
\* the workers interleaved, exactly the tasks the constructor's scan
\* returned, in scan order.
C1_ListIsScan ==
    /\ generation_ = scanned
    /\ \A w \in Workers : ret[w].op = "batch_uuids" => ret[w].value = scanned

\* A list() of a catalog of two or more tasks, returned while the other
\* worker has loaded a batch or asked for a removal.
C1_Witness ==
    \E w, v \in Workers :
        /\ w # v
        /\ Len(scanned) >= 2
        /\ ret[w].op = "batch_uuids" /\ Len(ret[w].value) >= 2
        /\ ret[v].op \in {"batch", "RemoveBatch", "AddBatch"}

\* C2: from the stamp on, and in the batch handed back, the batch's id is
\* the textual form of the task's uuid, whatever id the payload carried, and
\* PopulateClassId leaves it so.
C2_LoadedIdIsTaskId ==
    \A w \in Workers :
        /\ pc[w] \in {"stamped", "populated"} =>
              local[w].batch.id = lexical_cast(local[w].task.uuid)
        /\ (ret[w].op = "batch" /\ ret[w].threw = "") =>
              ret[w].value[1].id = lexical_cast(ret[w].arg)

\* A payload that reported another id and lacked class ids has been stamped
\* and populated.
C2_Witness ==
    \E w \in Workers :
        /\ pc[w] = "populated"
        /\ local[w].decoded.id # lexical_cast(local[w].task.uuid)
        /\ local[w].decoded.class_id = << >>
        /\ local[w].batch.class_id # << >>

\* C3: every AddBatch call throws InvalidOperation, hands back no
\* identifier and leaves the catalog as it was.
C3_AddAlwaysFails ==
    [][\A w \in Workers :
          (ret'[w].op = "AddBatch" /\ ret'[w] # ret[w]) =>
              /\ ret'[w].threw = "InvalidOperation"
              /\ ret'[w].value = << >>
              /\ generation_' = generation_]_vars

\* An AddBatch has failed on a non-empty catalog.
C3_Witness ==
    \E w \in Workers :
        /\ ret[w].op = "AddBatch" /\ ret[w].threw # ""
        /\ Len(generation_) >= 1

\* C4: every RemoveBatch call returns normally and leaves the catalog as it
\* was, for ids in the catalog and for ids not in it.
C4_RemoveIsNoOp ==
    [][\A w \in Workers :
          (ret'[w].op = "RemoveBatch" /\ ret'[w] # ret[w]) =>
              /\ ret'[w].threw = ""
              /\ generation_' = generation_]_vars

InCatalog(u) == \E i \in 1..Len(generation_) : generation_[i].uuid = u

\* One worker has removed an id of the catalog, the other an id outside it.
C4_Witness ==
    \E w, v \in Workers :
        /\ ret[w].op = "RemoveBatch" /\ InCatalog(ret[w].arg)
        /\ ret[v].op = "RemoveBatch" /\ ~InCatalog(ret[v].arg)

----------------------------------------------------------------------------
(***************************************************************************)
(* SmoothSparsePhi                                                         *)
(***************************************************************************)

\* PhiMatrix::topic_name() and PhiMatrix::token(i): the indexing shared by
\* p_wt, n_wt and result in one call.
TopicName == <<"t0", "t1">>

Token == <<[keyword |-> "a", class_id |-> "c1"],
           [keyword |-> "b", class_id |-> "c2"]>>

topic_size == Len(TopicName)
token_size == Len(Token)

\* PhiMatrix::get / PhiMatrix::set on a token_size x topic_size matrix.
get(m, tok, topic) == m[tok][topic]
set(m, tok, topic, value) == [m EXCEPT ![tok][topic] = value]

\* The matrix pairs the training loop hands in (p_wt comes with the n_wt it
\* was estimated from), and the result matrix before any regularizer wrote
\* to it.
PhiInputs ==
    { [p_wt |-> <<<<1, 2>>, <<3, 0>>>>, n_wt |-> <<<<5, 5>>, <<5, 5>>>>],
      [p_wt |-> <<<<2, 2>>, <<0, 1>>>>, n_wt |-> <<<<6, 7>>, <<8, 9>>>>] }
NwtInputs == { i.n_wt : i \in PhiInputs }
Untouched == <<<<-1, -1>>, <<-1, -1>>>>

\* SmoothSparsePhiConfig: repeated topic_name, repeated class_id, optional
\* dictionary_name, optional transform_config (absent = empty sequence).
Configs ==
    [topic_name : {{}, {"t1"}},
     class_id : {{}, {"c1"}, {"c2"}},
     dictionary_name : {<< >>, <<"d1">>, <<"nodict">>},
     transform_config : {<< >>, <<"polynomial">>}]

\* core::is_member(value, repeated field) and its vector overload.
is_member(x, field) == x \in field
is_member_all(xs, field) == [i \in 1..Len(xs) |-> xs[i] \in field]

\* TransformFunction::create(config) / create(): the function the tag
\* selects, the identity without a tag.
create(transform_config) == transform_config[1]
create_default == "identity"

\* TransformFunction::apply
apply(tf, x) == IF tf = "identity" THEN x ELSE x * x

\* RegularizerInterface::dictionary(name): the dictionary registered under
\* name, or nothing.  "d1" holds a value for token a and none for token b.
dictionary(name) ==
    IF name = "d1" THEN << {[token |-> Token[1], token_value |-> 2]} >> ELSE << >>

\* Dictionary::entry(token)
entry(dict, token) ==
    LET found == {e \in dict : e.token = token}
    IN  IF found = {} THEN << >> ELSE << CHOOSE e \in found : TRUE >>

\* RegularizePhi, lines 31-35.
topics_to_regularize(cfg) ==
    IF Cardinality(cfg.topic_name) = 0
    THEN [i \in 1..topic_size |-> TRUE]
    ELSE is_member_all(TopicName, cfg.topic_name)

\* RegularizePhi, lines 37-40.
use_all_classes(cfg) == Cardinality(cfg.class_id) = 0

\* RegularizePhi, lines 42-45.
dictionary_ptr(cfg) ==
    IF cfg.dictionary_name # << >> THEN dictionary(cfg.dictionary_name[1]) ELSE << >>

\* Mutant: a token without a dictionary entry keeps the neutral coefficient.
coefficient_missing_is_one(cfg, tok) ==
    LET ptr == dictionary_ptr(cfg)
    IN  IF ptr # << >> /\ (use_all_classes(cfg) \/ is_member(Token[tok].class_id, cfg.class_id))
        THEN LET entry_ptr == entry(ptr[1], Token[tok])
             IN  IF entry_ptr # << >> THEN entry_ptr[1].token_value ELSE 1
        ELSE 1

\* Mutant: a dictionary name that resolves to nothing counts as a dictionary
\* without entries.
coefficient_unresolved_is_empty(cfg, tok) ==
    LET ptr == dictionary_ptr(cfg)
    IN  IF cfg.dictionary_name # << >>
           /\ (use_all_classes(cfg) \/ is_member(Token[tok].class_id, cfg.class_id))
        THEN LET entry_ptr == IF ptr = << >> THEN << >> ELSE entry(ptr[1], Token[tok])
             IN  IF entry_ptr # << >> THEN entry_ptr[1].token_value ELSE 0
        ELSE 1

\* RegularizePhi, lines 49-58: the coefficient of one token.
coefficient(cfg, tok) ==
    LET ptr == dictionary_ptr(cfg)
        has_dictionary == ptr # << >>
    IN  IF has_dictionary
           /\ (use_all_classes(cfg) \/ is_member(Token[tok].class_id, cfg.class_id))
        THEN LET entry_ptr == entry(ptr[1], Token[tok])
             IN  IF entry_ptr # << >> THEN entry_ptr[1].token_value ELSE 0
        ELSE 1

\* Mutant: the correction is added to what result already holds.
cell_accumulates(tf, p, n, res, coef, tok, topic) ==
    get(res, tok, topic) + coef * apply(tf, get(p, tok, topic))

\* RegularizePhi, lines 63-64: the value written to one cell.
cell(tf, p, n, res, coef, tok, topic) ==
    coef * apply(tf, get(p, tok, topic))

RECURSIVE topic_loop(_, _, _, _, _, _, _, _)
\* RegularizePhi, lines 61-66: the loop over topics for one token.
topic_loop(mask, tf, p, n, res, coef, tok, topic_id) ==
    IF topic_id > topic_size THEN res
    ELSE topic_loop(mask, tf, p, n,
                    IF mask[topic_id]
                    THEN set(res, tok, topic_id, cell(tf, p, n, res, coef, tok, topic_id))
                    ELSE res,
                    coef, tok, topic_id + 1)

\* Mutant: the `continue` of line 60 is missing.
regularize_token_no_skip(cfg, tf, p, n, res, tok) ==
    topic_loop(topics_to_regularize(cfg), tf, p, n, res, coefficient(cfg, tok), tok, 1)

\* RegularizePhi, lines 49-66: one iteration of the loop over tokens.
regularize_token(cfg, tf, p, n, res, tok) ==
    IF ~use_all_classes(cfg) /\ ~is_member(Token[tok].class_id, cfg.class_id)
    THEN res
    ELSE topic_loop(topics_to_regularize(cfg), tf, p, n, res,
                    coefficient(cfg, tok), tok, 1)

RECURSIVE token_loop(_, _, _, _, _, _)
\* RegularizePhi, lines 48-67: the loop over tokens.
token_loop(cfg, tf, p, n, res, tok) ==
    IF tok > token_size THEN res
    ELSE token_loop(cfg, tf, p, n, regularize_token(cfg, tf, p, n, res, tok), tok + 1)

\* A serialized RegularizerConfig.config: well-formed bytes decode to the
\* message they encode; malformed bytes make ParseFromString fail, leaving
\* in the target message the fields decoded before the failure.
Blobs ==
    [wellformed : {TRUE}, fields : Configs]
    \cup [wellformed : {FALSE},
          fields : [topic_name : {{"t0"}}, class_id : {{}},
                    dictionary_name : {<< >>},
                    transform_config : {<< >>, <<"polynomial">>}]]

\* SmoothSparsePhiConfig::ParseFromString
ParseFromString(blob) == [ok |-> blob.wellformed, msg |-> blob.fields]

\* Mutant: the else branch is missing, the old function stays.
select_transform_stale(cfg, current) ==
    IF cfg.transform_config # << >> THEN create(cfg.transform_config) ELSE current

\* Constructor lines 18-21 and Reconfigure lines 90-93: the transform
\* function for a configuration (current: the function held so far).
select_transform(cfg, current) ==
    IF cfg.transform_config # << >> THEN create(cfg.transform_config) ELSE create_default

Returned(op, ok) ==
    [op |-> op, threw |-> IF ok THEN "" ELSE "CorruptedMessageException", value |-> ok]

\* SmoothSparsePhi::SmoothSparsePhi(config) over the matrices of the first
\* pass; the Generation part stays as constructed over an empty directory.
RegInit ==
    /\ \E config \in Configs :
         /\ config_ = config
         /\ transform_function_ = select_transform(config, "nullptr")
    /\ \E i \in PhiInputs : p_wt = i.p_wt /\ n_wt = i.n_wt
    /\ result = Untouched
    /\ last = Returned("SmoothSparsePhi", TRUE)
    /\ rpc = "idle" /\ token_id = 0 /\ cpc = "idle"
    /\ scanned = << >>
    /\ generation_ = DiskGeneration(scanned)
    /\ pc = [w \in Workers |-> "idle"]
    /\ local = [w \in Workers |-> NoLocal]
    /\ ret = [w \in Workers |-> NoRet]

\* SmoothSparsePhi::RegularizePhi, the whole call.
RegularizePhi ==
    /\ result' = token_loop(config_, transform_function_, p_wt, n_wt, result, 1)
    /\ last' = Returned("RegularizePhi", TRUE)
    /\ UNCHANGED <<config_, transform_function_, p_wt, n_wt,
                   rpc, token_id, cpc>>

\* Mutant: the blob is parsed straight into config_.
ReconfigureInPlace(blob) ==
    LET parse == ParseFromString(blob)
    IN  /\ config_' = parse.msg
        /\ transform_function_' =
              IF parse.ok THEN select_transform(parse.msg, transform_function_)
              ELSE transform_function_
        /\ last' = Returned("Reconfigure", parse.ok)
        /\ UNCHANGED <<p_wt, n_wt, result, rpc, token_id, cpc>>

\* SmoothSparsePhi::Reconfigure, the whole call.
Reconfigure(blob) ==
    LET parse == ParseFromString(blob)
    IN  /\ IF ~parse.ok
           THEN UNCHANGED <<config_, transform_function_>>
           ELSE /\ config_' = parse.msg
                /\ transform_function_' = select_transform(parse.msg, transform_function_)
        /\ last' = Returned("Reconfigure", parse.ok)
        /\ UNCHANGED <<p_wt, n_wt, result, rpc, token_id, cpc>>

\* The training loop produces the matrices of the next pass.
NewPhi(i) ==
    /\ rpc = "idle"
    /\ p_wt' = i.p_wt
    /\ n_wt' = i.n_wt
    /\ last' = Returned("NewPhi", TRUE)
    /\ UNCHANGED <<config_, transform_function_, result,
                   rpc, token_id, cpc>>

RegNext ==
    \/ RegularizePhi /\ UNCHANGED genVars
    \/ \E blob \in Blobs : Reconfigure(blob) /\ UNCHANGED genVars
    \/ \E i \in PhiInputs : NewPhi(i) /\ UNCHANGED genVars

SpecRegularizer == RegInit /\ [][RegNext]_vars

(***************************************************************************)
(* The same two calls step by step, under a caller that serializes them:   *)
(* Reconfigure starts only while no RegularizePhi is in flight and         *)
(* RegularizePhi starts only while no Reconfigure is.                      *)
(***************************************************************************)

\* RegularizePhi, lines 28-45: entry, up to the loop over tokens.
RegularizePhi_enter ==
    /\ rpc = "idle" /\ cpc = "idle"
    /\ rpc' = "loop"
    /\ token_id' = 1
    /\ UNCHANGED <<config_, transform_function_, p_wt, n_wt, result, last, cpc>>

\* RegularizePhi, lines 48-67: one iteration of the loop over tokens.  The
\* topic mask, use_all_classes and dictionary_ptr of lines 31-45 are read
\* from config_ again here: no step changes config_ while the call runs.
RegularizePhi_token ==
    /\ rpc = "loop" /\ token_id <= token_size
    /\ result' = regularize_token(config_, transform_function_, p_wt, n_wt,
                                  result, token_id)
    /\ token_id' = token_id + 1
    /\ UNCHANGED <<config_, transform_function_, p_wt, n_wt, last, rpc, cpc>>

\* RegularizePhi, line 69: return true.
RegularizePhi_return ==
    /\ rpc = "loop" /\ token_id > token_size
    /\ rpc' = "idle"
    /\ token_id' = 0
    /\ last' = Returned("RegularizePhi", TRUE)
    /\ UNCHANGED <<config_, transform_function_, p_wt, n_wt, result, cpc>>

\* Reconfigure, lines 81-88: parse into the local message, then throw or
\* copy it into config_.
Reconfigure_copy(blob) ==
    /\ cpc = "idle" /\ rpc = "idle"
    /\ LET parse == ParseFromString(blob)
       IN  IF ~parse.ok
           THEN /\ last' = Returned("Reconfigure", FALSE)
                /\ UNCHANGED <<config_, cpc>>
           ELSE /\ config_' = parse.msg
                /\ cpc' = "copied"
                /\ UNCHANGED last
    /\ UNCHANGED <<transform_function_, p_wt, n_wt, result, rpc, token_id>>

\* Reconfigure, lines 90-95: install the transform function, return true.
Reconfigure_transform ==
    /\ cpc = "copied"
    /\ transform_function_' = select_transform(config_, transform_function_)
    /\ cpc' = "idle"
    /\ last' = Returned("Reconfigure", TRUE)
    /\ UNCHANGED <<config_, p_wt, n_wt, result, rpc, token_id>>

SerNext ==
    \/ RegularizePhi_enter /\ UNCHANGED genVars
    \/ RegularizePhi_token /\ UNCHANGED genVars
    \/ RegularizePhi_return /\ UNCHANGED genVars
    \/ \E blob \in Blobs : Reconfigure_copy(blob) /\ UNCHANGED genVars
    \/ Reconfigure_transform /\ UNCHANGED genVars

SpecSerialized == RegInit /\ [][SerNext]_vars

\* The cells a call is to write: the token passes the class filter and the
\* topic is selected.
PassesClassFilter(cfg, tok) ==
    cfg.class_id = {} \/ Token[tok].class_id \in cfg.class_id

TopicSelected(cfg, topic) ==
    cfg.topic_name = {} \/ TopicName[topic] \in cfg.topic_name

Cells == (1..token_size) \X (1..topic_size)

\* The entries of the dictionary the configuration names, if it resolves.
DictionaryAvailable(cfg) ==
    cfg.dictionary_name # << >> /\ dictionary(cfg.dictionary_name[1]) # << >>

EntriesFor(cfg, tok) ==
    {e \in dictionary(cfg.dictionary_name[1])[1] : e.token = Token[tok]}

\* C5: a Reconfigure whose blob does not parse throws
\* CorruptedMessageException and leaves config_ and transform_function_ as
\* they were, so RegularizePhi computes after it what it computed before.
C5_FailedReconfigureKeepsState ==
    [][\A blob \in {b \in Blobs : ~ParseFromString(b).ok} :
          Reconfigure(blob) =>
              /\ last'.op = "Reconfigure"
              /\ last'.threw = "CorruptedMessageException"
              /\ config_' = config_
              /\ transform_function_' = transform_function_
              /\ token_loop(config_', transform_function_', p_wt', n_wt', result', 1)
                   = token_loop(config_, transform_function_, p_wt, n_wt, result, 1)]_vars

\* A Reconfigure has failed on a regularizer holding a polynomial transform
\* and a topic filter, after results were written.
C5_Witness ==
    /\ last.op = "Reconfigure" /\ last.threw = "CorruptedMessageException"
    /\ config_.transform_config = <<"polynomial">>
    /\ transform_function_ = "polynomial"
    /\ config_.topic_name = {"t1"}
    /\ result # Untouched

\* C6: RegularizePhi writes the cells whose token passes the class filter
\* and whose topic is selected, leaves every other cell of result as it
\* was, and leaves p_wt and n_wt as they were.
C6_WritesExactlySelectedCells ==
    [][RegularizePhi =>
          /\ p_wt' = p_wt
          /\ n_wt' = n_wt
          /\ \A c \in Cells :
                IF PassesClassFilter(config_, c[1]) /\ TopicSelected(config_, c[2])
                THEN result'[c[1]][c[2]] =
                        coefficient(config_, c[1])
                          * apply(transform_function_, p_wt[c[1]][c[2]])
                ELSE result'[c[1]][c[2]] = result[c[1]][c[2]]]_vars

\* A call under a class filter and a topic filter wrote cell (a, t1) and
\* left the rest of the matrix untouched.
C6_Witness ==
    /\ last.op = "RegularizePhi"
    /\ config_.class_id = {"c1"} /\ config_.topic_name = {"t1"}
    /\ result[1][2] # -1
    /\ result[1][1] = -1 /\ result[2][1] = -1 /\ result[2][2] = -1

\* C7: with a resolved dictionary, a token that passes the class filter
\* gets, in every selected topic, 0 when the dictionary has no entry for it
\* and entry value x transform(p_wt) when it has one.
C7_DictionaryCoefficient ==
    [][RegularizePhi =>
          (DictionaryAvailable(config_) =>
             \A c \in Cells :
                (PassesClassFilter(config_, c[1]) /\ TopicSelected(config_, c[2])) =>
                   IF EntriesFor(config_, c[1]) = {}
                   THEN result'[c[1]][c[2]] = 0
                   ELSE \E e \in EntriesFor(config_, c[1]) :
                           result'[c[1]][c[2]] =
                              e.token_value
                                * apply(transform_function_, p_wt[c[1]][c[2]]))]_vars

\* Under dictionary d1 token b, which has no entry, was zeroed where p_wt
\* is not zero, and token a got its entry's value times the transform.
C7_Witness ==
    /\ last.op = "RegularizePhi"
    /\ config_.dictionary_name = <<"d1">>
    /\ config_.class_id = {}
    /\ \E t \in 1..topic_size :
          /\ TopicSelected(config_, t)
          /\ p_wt[2][t] # 0 /\ result[2][t] = 0
          /\ p_wt[1][t] # 0 /\ result[1][t] = 2 * apply(transform_function_, p_wt[1][t])

\* C8: without a dictionary (no name configured, or a name that resolves to
\* nothing) every written cell is transform(p_wt), and the call returns true.
C8_NoDictionaryIsNeutral ==
    [][RegularizePhi =>
          /\ last'.value = TRUE /\ last'.threw = ""
          /\ ~DictionaryAvailable(config_) =>
                \A c \in Cells :
                   (PassesClassFilter(config_, c[1]) /\ TopicSelected(config_, c[2])) =>
                      result'[c[1]][c[2]] = apply(transform_function_, p_wt[c[1]][c[2]])]_vars

\* A call whose dictionary name resolved to nothing wrote the polynomial
\* transform of p_wt.
C8_Witness ==
    /\ last.op = "RegularizePhi" /\ last.value = TRUE
    /\ config_.dictionary_name = <<"nodict">>
    /\ transform_function_ = "polynomial"
    /\ p_wt[1][2] = 2 /\ result[1][2] = 4
    /\ p_wt[2][2] # 0 /\ result[2][2] = p_wt[2][2] * p_wt[2][2]

\* C9: right after a RegularizePhi call, with the configuration and p_wt as
\* that call saw them, a further call leaves result as it is, whatever
\* n_wt it is given.
C9_RepeatedCallSameResult ==
    last.op = "RegularizePhi" =>
        \A n \in NwtInputs :
            token_loop(config_, transform_function_, p_wt, n, result, 1) = result

\* A call has written a non-zero correction into every cell.
C9_Witness ==
    /\ last.op = "RegularizePhi"
    /\ \A c \in Cells : result[c[1]][c[2]] > 0

\* The transform function a configuration selects: the one its
\* transform_config names, the identity when it names none.
TransformOf(cfg) ==
    IF cfg.transform_config = << >> THEN "identity" ELSE cfg.transform_config[1]

\* C10: under a caller that serializes Reconfigure against RegularizePhi, a
\* RegularizePhi in flight never sees a Reconfigure half done, works with
\* the transform function its configuration selects, and keeps the same
\* configuration and transform function from entry to return.
C10_ConfigAndTransformInstalledTogether ==
    [][/\ rpc' = "loop" =>
            /\ cpc' = "idle"
            /\ transform_function_' = TransformOf(config_')
       /\ rpc = "loop" =>
            /\ config_' = config_
            /\ transform_function_' = transform_function_]_vars

\* A RegularizePhi is in flight under the identity installed by a
\* successful Reconfigure, over a result an earlier call wrote under the
\* polynomial transform.
C10_Witness ==
    /\ rpc = "loop" /\ token_id = 2
    /\ last.op = "Reconfigure" /\ last.value = TRUE
    /\ config_.transform_config = << >> /\ transform_function_ = "identity"
    /\ p_wt[2][1] = 3 /\ result[2][1] = 9

====
